---- MODULE Spec2Model ----
(***************************************************************************)
(* A model of modules/interrogate.py: the InterrogateModels object, its    *)
(* vocabulary store (categories read from a content directory), the two    *)
(* lazily loaded model handles (BLIP caption model, CLIP embedding model)  *)
(* and their device placement, the similarity ranker and the interrogate() *)
(* pipeline with its exception handler.                                    *)
(*                                                                         *)
(* Strings are sequences of pieces: a filename is a sequence of its        *)
(* characters, a result string is a sequence of the pieces concatenated    *)
(* into it (s + t is s \o t).  The networks themselves are opaque: the     *)
(* averaged similarity of a candidate is the value sim[candidate], chosen  *)
(* when the model starts, and every call into a network may raise.         *)
(***************************************************************************)
EXTENDS Integers, Sequences, FiniteSets, TLC

VARIABLES
    \* process-wide configuration (modules.shared, modules.devices)
    cmd_opts,            \* [lowvram, medvram, no_half]
    opts,                \* [interrogate_keep_models_in_memory, interrogate_use_builtin_artists,
                         \*  interrogate_return_ranks, interrogate_clip_dict_limit]
    device_interrogate,  \* devices.device_interrogate: "cuda" or "cpu"
    artists,             \* shared.artist_db.artists: sequence of artist names
    sim,                 \* the averaged similarity the CLIP model gives each candidate
    \* the vocabulary store
    content_dir,         \* the directory __init__ is given
    built,               \* "new" before __init__, "built" after it, "raised" if it raised
    categories,          \* self.categories
    running_on_cpu,      \* self.running_on_cpu
    \* the model handles
    blip_model,          \* self.blip_model: [inst, dev, half], inst = 0 is None
    clip_model,          \* self.clip_model (with self.clip_preprocess)
    dtype,               \* self.dtype
    blip_loads,          \* number of times load_blip_model() has returned a model
    clip_loads,          \* number of times load_clip_model() has returned a model
    \* one call per thread
    pc,                  \* position of the thread's call
    op,                  \* the operation the thread is in
    res,                 \* interrogate's res
    caption,             \* interrogate's caption
    idx,                 \* position of interrogate's loop over self.categories
    ret,                 \* how the call ended: returned value or escaped exception
    log,                 \* the steps the call has taken so far
    ranked,              \* the results of the rank calls that returned in this call
    raised_at,           \* the step of this call that raised ("" when none did)
    pre,                 \* the handles as they were when the call started
    \* a direct rank() call
    rk,
    \* the pipeline-wide lock of the callers: [exists, holder], holder 0 when
    \* no call holds it; exists is FALSE when the callers use no lock
    lock

cfgVars == <<cmd_opts, opts, device_interrogate, artists, sim>>
vocabVars == <<content_dir, built, categories, running_on_cpu>>
handleVars == <<blip_model, clip_model, dtype, blip_loads, clip_loads>>
callVars == <<pc, op, res, caption, idx, ret, log, ranked, raised_at, pre>>
vars == <<cfgVars, vocabVars, handleVars, callVars, rk, lock>>

-----------------------------------------------------------------------------
(* Bounds *)

NumThreads == 2      \* caller threads
MaxSegs == 5         \* segments a generated filename is made of
MaxLen == 3          \* candidates in a generated candidate list
MaxTop == 4          \* largest top_count of a direct rank call
MaxCap == 3          \* largest interrogate_clip_dict_limit
MaxScore == 2        \* similarities are 0..MaxScore

Threads == 1..NumThreads
Min(a, b) == IF a < b THEN a ELSE b

CPU == "cpu"
CUDA == "cuda"

-----------------------------------------------------------------------------
(* The vocabulary store: __init__ *)

Digits == {"0", "1", "2", "3", "4", "5", "6", "7", "8", "9"}

DigitVal(c) ==
    CASE c = "0" -> 0 [] c = "1" -> 1 [] c = "2" -> 2 [] c = "3" -> 3
      [] c = "4" -> 4 [] c = "5" -> 5 [] c = "6" -> 6 [] c = "7" -> 7
      [] c = "8" -> 8 [] c = "9" -> 9

\* int(s) of a string of decimal digits
RECURSIVE int(_)
int(s) ==
    IF s = <<>> THEN 0
    ELSE 10 * int(SubSeq(s, 1, Len(s) - 1)) + DigitVal(s[Len(s)])

\* the position of the last character of the longest run of digits of s that
\* starts at i (i - 1 when s[i] is no digit): the greedy \d+
DigitRunEnd_one_digit(s, i) == IF i <= Len(s) /\ s[i] \in Digits THEN i ELSE i - 1
RECURSIVE DigitRunEnd(_, _)
DigitRunEnd(s, i) ==
    IF i <= Len(s) /\ s[i] \in Digits THEN DigitRunEnd(s, i + 1) ELSE i - 1

NoMatch == [isNone |-> TRUE, group1 |-> <<>>]

\* re_topn = r"\.top(\d+)\." matched at position i of s: the match (its group 1)
\* or None.  A digit is no ".", so giving digits back never makes the final "."
\* match: the greedy run decides.
re_topn_match(s, i) ==
    LET e == DigitRunEnd(s, i + 4) IN
    IF /\ i + 3 <= Len(s)
       /\ SubSeq(s, i, i + 3) = <<".", "t", "o", "p">>
       /\ e >= i + 4
       /\ e + 1 <= Len(s)
       /\ s[e + 1] = "."
    THEN [isNone |-> FALSE, group1 |-> SubSeq(s, i + 4, e)]
    ELSE NoMatch

\* re_topn.search(s): the match at the leftmost position that has one
RECURSIVE re_topn_search_from(_, _)
re_topn_search_from(s, i) ==
    IF i > Len(s) THEN NoMatch
    ELSE IF ~re_topn_match(s, i).isNone THEN re_topn_match(s, i)
    ELSE re_topn_search_from(s, i + 1)

re_topn_search(s) == re_topn_search_from(s, 1)

\* topn = 1 if m is None else int(m.group(1))
topn_of(filename) ==
    LET m == re_topn_search(filename) IN
    IF m.isNone THEN 1 ELSE int(m.group1)

Whitespace == {" ", "\n", "\t"}

\* x.strip() of a line given as its sequence of pieces
RECURSIVE lstrip(_)
lstrip(x) ==
    IF x # <<>> /\ x[1] \in Whitespace THEN lstrip(Tail(x)) ELSE x

RECURSIVE rstrip(_)
rstrip(x) ==
    IF x # <<>> /\ x[Len(x)] \in Whitespace
    THEN rstrip(SubSeq(x, 1, Len(x) - 1)) ELSE x

strip(x) == rstrip(lstrip(x))

\* lines = [x.strip() for x in file.readlines()]
read_lines(entry) == [i \in 1..Len(entry.lines) |-> strip(entry.lines[i])]

Category(name, topn, items) == [name |-> name, topn |-> topn, items |-> items]

\* The loop of __init__ over os.listdir(content_dir): open() raises on an entry
\* that is no regular file, and the exception leaves __init__.
RECURSIVE listdir_loop(_, _)
listdir_loop(entries, acc) ==
    IF entries = <<>> THEN [exc |-> "", categories |-> acc]
    ELSE LET e == entries[1] IN
         IF e.kind # "file" THEN [exc |-> "IsADirectoryError", categories |-> acc]
         ELSE listdir_loop(Tail(entries),
                           Append(acc, Category(e.name, topn_of(e.name), read_lines(e))))

\* __init__(content_dir)
construct(dir) ==
    IF dir.exists THEN listdir_loop(dir.entries, <<>>)
    ELSE [exc |-> "", categories |-> <<>>]

-----------------------------------------------------------------------------
(* The model handles: load, send_*_to_ram, unload *)

NoModel == [inst |-> 0, dev |-> "none", half |-> FALSE]

\* model.to(d)
to(h, d) == [h EXCEPT !.dev = d]

\* model.half()
half(h) == [h EXCEPT !.half = TRUE]

\* `self.blip_model is None`, `self.clip_model is None`
is_none_always(h) == TRUE
is_none(h) == h.inst = 0

\* self.x_model = self.x_model.to(devices.device_interrogate)
to_device_interrogate_skipped(h) == h
to_device_interrogate(h) == to(h, device_interrogate)

\* `not shared.cmd_opts.no_half and not self.running_on_cpu`
wants_half_ignores_cpu == ~cmd_opts.no_half
wants_half == ~cmd_opts.no_half /\ ~running_on_cpu

\* load_blip_model(): blip_decoder builds the model in host memory, full precision
load_blip_model(n) == [inst |-> n + 1, dev |-> CPU, half |-> FALSE]

\* load_clip_model(): clip.load(...), then model.to(devices.device_interrogate)
load_clip_model(n) == to([inst |-> n + 1, dev |-> CPU, half |-> FALSE], device_interrogate)

\* One half of load(): `if self.x_model is None: ... ; self.x_model = self.x_model.to(...)`,
\* for the handle h, n instantiations so far and the freshly instantiated model
\* `fresh`.  Each outcome is the handle and the count as they are when the half
\* ends, with the call that raised ("" when none did): the loader, half() and a
\* transfer to another device may each raise.
load_half(h, n, fresh, loader) ==
    LET inst == is_none(h)
        h1 == IF inst THEN fresh ELSE h
        n1 == IF inst THEN n + 1 ELSE n
        h2 == IF inst /\ wants_half THEN half(h1) ELSE h1
        h3 == to_device_interrogate(h2)
    IN  {[exc |-> loader, h |-> h, n |-> n] : x \in IF inst THEN {1} ELSE {}}
        \cup {[exc |-> "half", h |-> h1, n |-> n1] :
                 x \in IF inst /\ wants_half THEN {1} ELSE {}}
        \cup {[exc |-> "to", h |-> h2, n |-> n1] : x \in IF h3 # h2 THEN {1} ELSE {}}
        \cup {[exc |-> "", h |-> h3, n |-> n1]}

\* next(self.clip_model.parameters()).dtype
dtype_of(h) == IF h.half THEN "float16" ELSE "float32"

\* load(): the outcomes from the handle state s = [blip, clip, dtype, blip_loads, clip_loads]
load(s) ==
    LET B == load_half(s.blip, s.blip_loads, load_blip_model(s.blip_loads), "load_blip_model")
    IN  {[exc |-> b.exc, blip |-> b.h, clip |-> s.clip, dtype |-> s.dtype,
          blip_loads |-> b.n, clip_loads |-> s.clip_loads] : b \in {x \in B : x.exc # ""}}
        \cup UNION {
            {[exc |-> c.exc, blip |-> b.h, clip |-> c.h,
              dtype |-> IF c.exc = "" THEN dtype_of(c.h) ELSE s.dtype,
              blip_loads |-> b.n, clip_loads |-> c.n] :
                c \in load_half(s.clip, s.clip_loads, load_clip_model(s.clip_loads),
                                "load_clip_model")} :
            b \in {x \in B : x.exc = ""}}

\* send_clip_to_ram(), send_blip_to_ram(): the handle afterwards
send_to_ram_never(h) == h
send_to_ram_always(h) == IF h.inst # 0 THEN to(h, CPU) ELSE h
send_to_ram(h) ==
    IF ~opts.interrogate_keep_models_in_memory
    THEN IF h.inst # 0 THEN to(h, CPU) ELSE h
    ELSE h

Handles == [blip |-> blip_model, clip |-> clip_model, dtype |-> dtype,
            blip_loads |-> blip_loads, clip_loads |-> clip_loads]

SetHandles(s) ==
    /\ blip_model' = s.blip
    /\ clip_model' = s.clip
    /\ dtype' = s.dtype
    /\ blip_loads' = s.blip_loads
    /\ clip_loads' = s.clip_loads

\* unload(): send_clip_to_ram(); send_blip_to_ram(); devices.torch_gc()
unload(s) == [s EXCEPT !.clip = send_to_ram(s.clip), !.blip = send_to_ram(s.blip)]

-----------------------------------------------------------------------------
(* The similarity ranker: rank *)

\* text_array = text_array[0:int(shared.opts.interrogate_clip_dict_limit)]
\* when the limit is not 0
truncate_never(text_array) == text_array
truncate(text_array) ==
    IF opts.interrogate_clip_dict_limit # 0
    THEN SubSeq(text_array, 1, Min(opts.interrogate_clip_dict_limit, Len(text_array)))
    ELSE text_array

\* The caller's list after the call: the slice of line 116 is a new list bound
\* to the local name, so the list passed in keeps all its items.
caller_list_cut_in_place(text_array) ==
    IF opts.interrogate_clip_dict_limit # 0
    THEN SubSeq(text_array, 1, Min(opts.interrogate_clip_dict_limit, Len(text_array)))
    ELSE text_array
caller_list(text_array) == text_array

\* top_count = min(top_count, len(text_array))
clamp_never(top_count, text_array) == top_count
clamp(top_count, text_array) == Min(top_count, Len(text_array))

\* similarity: the averaged softmax distribution over the candidates scored,
\* as the (opaque) CLIP model gives it
similarity(text_array) == [i \in 1..Len(text_array) |-> sim[text_array[i]]]

\* similarity.topk(k): the index sequences topk may return.  k indices of the k
\* largest values, in descending order of value; the order among equal values is
\* not specified by torch, so every order is an outcome.
topk_unsorted(v, k) ==
    {p \in [1..k -> 1..Len(v)] :
        /\ \A i, j \in 1..k : i # j => p[i] # p[j]
        /\ \A j \in 1..Len(v) :
              (\A i \in 1..k : p[i] # j) => \A i \in 1..k : v[j] <= v[p[i]]}
topk(v, k) ==
    {p \in [1..k -> 1..Len(v)] :
        /\ \A i, j \in 1..k : i # j => p[i] # p[j]
        /\ \A i \in 1..k : i < k => v[p[i]] >= v[p[i + 1]]
        /\ \A j \in 1..Len(v) :
              (\A i \in 1..k : p[i] # j) => \A i \in 1..k : v[j] <= v[p[i]]}

\* rank(image_features, text_array, top_count): the outcomes.  `scored` is the
\* list given to clip.tokenize / encode_text, `text_array` the caller's list
\* after the call; exc names what raised: the CLIP model ("encode_text"), or
\* topk for a k larger than the list ("topk").
rank(text_array, top_count) ==
    LET ta == truncate(text_array)
        k == clamp(top_count, ta)
        v == similarity(ta)
        after == caller_list(text_array)
    IN  {[exc |-> "encode_text", scored |-> ta, result |-> <<>>, text_array |-> after]}
        \cup (IF k > Len(ta)
              THEN {[exc |-> "topk", scored |-> ta, result |-> <<>>, text_array |-> after]}
              ELSE {[exc |-> "", scored |-> ta, text_array |-> after,
                     result |-> [i \in 1..k |-> <<ta[p[i]], v[p[i]] * 100>>]] :
                       p \in topk(v, k)})

-----------------------------------------------------------------------------
(* The pipeline: interrogate *)

\* Python values of res: None, or a string (the sequence of its pieces)
PyNone == [isNone |-> TRUE, s |-> <<>>]
Str(s) == [isNone |-> FALSE, s |-> s]

NoRet == [kind |-> "", value |-> PyNone, exc |-> ""]
Returned(v) == [kind |-> "returned", value |-> v, exc |-> ""]
Escaped(e) == [kind |-> "raised", value |-> PyNone, exc |-> e]

NoPre == [blip |-> NoModel, clip |-> NoModel, dtype |-> "None"]

\* what the (opaque) caption model generates
CaptionText == <<"a cat sitting on a table">>

\* f"{x:.3f}" of x = score/100, for a score in units of 1e-5: x rounded to
\* thousandths (ties, which the scores used here never hit, are rounded up)
fmt3(score) ==
    LET r == (score \div 100 + 50) \div 100
    IN  <<ToString(r \div 1000), ".", ToString((r \div 100) % 10),
          ToString((r \div 10) % 10), ToString(r % 10)>>

\* the clause appended for one match:
\* f", ({match}:{score/100:.3f})" or ", " + match
clause(m) ==
    IF opts.interrogate_return_ranks
    THEN <<", (">> \o m[1] \o <<":">> \o fmt3(m[2]) \o <<")">>
    ELSE <<", ">> \o m[1]

append_matches_first_only(r, matches) ==
    IF matches = <<>> THEN r ELSE r \o clause(matches[1])

\* `for match, score in matches: res += ...`
RECURSIVE append_matches(_, _)
append_matches(r, matches) ==
    IF matches = <<>> THEN r
    ELSE append_matches(r \o clause(matches[1]), Tail(matches))

\* ["by " + artist.name for artist in shared.artist_db.artists]
artist_candidates == [i \in 1..Len(artists) |-> <<"by ", artists[i]>>]

\* res += "<error>" in the handler, for a res that is a string
append_error_twice(r) == r \o <<"<error>", "<error>">>
append_error_overwrites(r) == <<"<error>">>
append_error(r) == r \o <<"<error>">>

\* a model can be run when it is loaded and on the device its inputs are sent to
usable(h) == h.inst # 0 /\ h.dev = device_interrogate

Idle == \A t \in Threads : pc[t] = "idle"

NoLock == [exists |-> FALSE, holder |-> 0]
FreeLock == [exists |-> TRUE, holder |-> 0]
HeldBy(t) == [exists |-> TRUE, holder |-> t]

\* the entry into a call of thread t
Enter(t, o, first) ==
    /\ pc' = [pc EXCEPT ![t] = first]
    /\ op' = [op EXCEPT ![t] = o]
    /\ pre' = [pre EXCEPT ![t] = [blip |-> blip_model, clip |-> clip_model, dtype |-> dtype]]
    /\ UNCHANGED <<res, caption, idx, ret, log, ranked, raised_at>>
    /\ UNCHANGED <<cfgVars, vocabVars, handleVars, rk>>

Start(t, o, first) == Enter(t, o, first) /\ UNCHANGED lock

\* a caller calls interrogate(pil_image): res = None
CallInterrogate(t) == built = "built" /\ Idle /\ Start(t, "interrogate", "lowmem")

\* a caller calls load()
CallLoad(t) == built = "built" /\ Idle /\ Start(t, "load", "load")

\* a caller calls unload()
CallUnload(t) == built = "built" /\ Idle /\ Start(t, "unload", "unload")

Raise(t, where) ==
    /\ pc' = [pc EXCEPT ![t] = "except"]
    /\ raised_at' = [raised_at EXCEPT ![t] = where]

Logged(t, events) == log' = [log EXCEPT ![t] = @ \o events]

\* `shared.cmd_opts.lowvram or shared.cmd_opts.medvram`
low_memory_lowvram_only == cmd_opts.lowvram
low_memory == cmd_opts.lowvram \/ cmd_opts.medvram

\* if lowvram or medvram: lowvram.send_everything_to_cpu(); devices.torch_gc()
LowMem(t) ==
    /\ pc[t] = "lowmem"
    /\ IF low_memory
       THEN \/ /\ Raise(t, "lowmem")
               /\ Logged(t, <<"send_everything_to_cpu">>)
            \/ /\ pc' = [pc EXCEPT ![t] = "load"]
               /\ Logged(t, <<"send_everything_to_cpu", "torch_gc">>)
               /\ UNCHANGED raised_at
       ELSE /\ pc' = [pc EXCEPT ![t] = "load"]
            /\ UNCHANGED <<log, raised_at>>
    /\ UNCHANGED <<op, res, caption, idx, ret, ranked, pre>>
    /\ UNCHANGED <<cfgVars, vocabVars, handleVars, rk, lock>>

\* self.load(), in interrogate() or called directly
Load(t) ==
    /\ pc[t] = "load"
    /\ \E o \in load(Handles) :
         /\ SetHandles(o)
         /\ Logged(t, <<"load">>)
         /\ IF op[t] = "interrogate"
            THEN /\ IF o.exc # "" THEN Raise(t, "load")
                    ELSE pc' = [pc EXCEPT ![t] = "caption"] /\ UNCHANGED raised_at
                 /\ UNCHANGED ret
            ELSE /\ pc' = [pc EXCEPT ![t] = "done"]
                 /\ ret' = [ret EXCEPT ![t] = IF o.exc # "" THEN Escaped(o.exc)
                                                 ELSE Returned(PyNone)]
                 /\ raised_at' = [raised_at EXCEPT ![t] = IF o.exc # "" THEN "load" ELSE ""]
    /\ UNCHANGED <<op, res, caption, idx, ranked, pre>>
    /\ UNCHANGED <<cfgVars, vocabVars, rk, lock>>

\* caption = self.generate_caption(pil_image)
GenerateCaption(t) ==
    /\ pc[t] = "caption"
    /\ Logged(t, <<"generate_caption">>)
    /\ \/ Raise(t, "caption") /\ UNCHANGED caption
       \/ /\ usable(blip_model)
          /\ caption' = [caption EXCEPT ![t] = CaptionText]
          /\ pc' = [pc EXCEPT ![t] = "blip_to_ram"]
          /\ UNCHANGED raised_at
    /\ UNCHANGED <<op, res, idx, ret, ranked, pre>>
    /\ UNCHANGED <<cfgVars, vocabVars, handleVars, rk, lock>>

\* self.send_blip_to_ram(); devices.torch_gc(); res = caption
SendBlipToRam(t) ==
    /\ pc[t] = "blip_to_ram"
    /\ blip_model' = send_to_ram(blip_model)
    /\ Logged(t, <<"send_blip_to_ram", "torch_gc">>)
    /\ res' = [res EXCEPT ![t] = Str(caption[t])]
    /\ pc' = [pc EXCEPT ![t] = "embed"]
    /\ UNCHANGED <<op, caption, idx, ret, ranked, raised_at, pre>>
    /\ UNCHANGED <<clip_model, dtype, blip_loads, clip_loads>>
    /\ UNCHANGED <<cfgVars, vocabVars, rk, lock>>

\* where the loop over self.categories goes with i categories done
Loop(i) == IF i > Len(categories) THEN "unload" ELSE "cat"

\* clip_image = self.clip_preprocess(...); image_features = self.clip_model.encode_image(...)
Embed(t) ==
    /\ pc[t] = "embed"
    /\ Logged(t, <<"encode_image">>)
    /\ \/ Raise(t, "embed") /\ UNCHANGED idx
       \/ /\ usable(clip_model)
          /\ idx' = [idx EXCEPT ![t] = 1]
          /\ pc' = [pc EXCEPT ![t] = IF opts.interrogate_use_builtin_artists
                                       THEN "artist" ELSE Loop(1)]
          /\ UNCHANGED raised_at
    /\ UNCHANGED <<op, res, caption, ret, ranked, pre>>
    /\ UNCHANGED <<cfgVars, vocabVars, handleVars, rk, lock>>

\* artist = self.rank(image_features, ["by " + ...])[0]; res += ", " + artist[0]
RankArtist(t) ==
    /\ pc[t] = "artist"
    /\ \E o \in rank(artist_candidates, 1) :
         IF o.exc # "" \/ ~usable(clip_model)
         THEN /\ Raise(t, "artist")
              /\ Logged(t, <<"rank", "encode_text">>)
              /\ UNCHANGED <<res, ranked>>
         ELSE IF o.result = <<>>
         THEN /\ Raise(t, "artist")
              /\ Logged(t, <<"rank", "IndexError">>)
              /\ UNCHANGED <<res, ranked>>
         ELSE /\ res' = [res EXCEPT ![t] = Str(@.s \o <<", ">> \o o.result[1][1])]
              /\ ranked' = [ranked EXCEPT ![t] = Append(@, o.result)]
              /\ pc' = [pc EXCEPT ![t] = Loop(1)]
              /\ Logged(t, <<"rank">>)
              /\ UNCHANGED raised_at
    /\ UNCHANGED <<op, caption, idx, ret, pre>>
    /\ UNCHANGED <<cfgVars, vocabVars, handleVars, rk, lock>>

\* one round of `for name, topn, items in self.categories`
RankCategory(t) ==
    /\ pc[t] = "cat"
    /\ \E o \in rank(categories[idx[t]].items, categories[idx[t]].topn) :
         /\ categories' = [categories EXCEPT ![idx[t]].items = o.text_array]
         /\ IF o.exc # "" \/ ~usable(clip_model)
            THEN /\ Raise(t, "cat")
                 /\ Logged(t, <<"rank", "encode_text">>)
                 /\ UNCHANGED <<res, ranked, idx>>
            ELSE /\ res' = [res EXCEPT ![t] = Str(append_matches(@.s, o.result))]
                 /\ ranked' = [ranked EXCEPT ![t] = Append(@, o.result)]
                 /\ idx' = [idx EXCEPT ![t] = @ + 1]
                 /\ pc' = [pc EXCEPT ![t] = Loop(idx[t] + 1)]
                 /\ Logged(t, <<"rank">>)
                 /\ UNCHANGED raised_at
    /\ UNCHANGED <<op, caption, ret, pre>>
    /\ UNCHANGED <<content_dir, built, running_on_cpu>>
    /\ UNCHANGED <<cfgVars, handleVars, rk, lock>>

\* except Exception: ...; res += "<error>".  On res = None the += raises a
\* TypeError inside the handler, which leaves interrogate().
Except(t) ==
    /\ pc[t] = "except"
    /\ Logged(t, <<"except">>)
    /\ IF res[t].isNone
       THEN /\ pc' = [pc EXCEPT ![t] = "done"]
            /\ ret' = [ret EXCEPT ![t] = Escaped("TypeError")]
            /\ UNCHANGED res
       ELSE /\ res' = [res EXCEPT ![t] = Str(append_error(@.s))]
            /\ pc' = [pc EXCEPT ![t] = "unload"]
            /\ UNCHANGED ret
    /\ UNCHANGED <<op, caption, idx, ranked, raised_at, pre>>
    /\ UNCHANGED <<cfgVars, vocabVars, handleVars, rk, lock>>

\* self.unload(), in interrogate() (followed by `return res`) or called directly
Unload(t) ==
    /\ pc[t] = "unload"
    /\ SetHandles(unload(Handles))
    /\ Logged(t, <<"unload", "torch_gc">>)
    /\ ret' = [ret EXCEPT ![t] = IF op[t] = "interrogate" THEN Returned(res[t])
                                    ELSE Returned(PyNone)]
    /\ pc' = [pc EXCEPT ![t] = "done"]
    /\ UNCHANGED <<op, res, caption, idx, ranked, raised_at, pre>>
    /\ UNCHANGED <<cfgVars, vocabVars, rk, lock>>

\* the caller takes the result; the call's locals are gone
Leave(t) ==
    /\ pc[t] = "done"
    /\ pc' = [pc EXCEPT ![t] = "idle"]
    /\ op' = [op EXCEPT ![t] = ""]
    /\ res' = [res EXCEPT ![t] = PyNone]
    /\ caption' = [caption EXCEPT ![t] = <<>>]
    /\ idx' = [idx EXCEPT ![t] = 0]
    /\ ret' = [ret EXCEPT ![t] = NoRet]
    /\ log' = [log EXCEPT ![t] = <<>>]
    /\ ranked' = [ranked EXCEPT ![t] = <<>>]
    /\ raised_at' = [raised_at EXCEPT ![t] = ""]
    /\ pre' = [pre EXCEPT ![t] = NoPre]
    /\ UNCHANGED <<cfgVars, vocabVars, handleVars, rk>>

Return(t) == Leave(t) /\ UNCHANGED lock

-----------------------------------------------------------------------------
(* The inputs *)

File(name, lines) == [name |-> name, kind |-> "file", lines |-> lines]
Subdir(name) == [name |-> name, kind |-> "dir", lines |-> <<>>]

mediums_top2_txt ==
    <<"m", "e", "d", "i", "u", "m", "s", ".", "t", "o", "p", "2", ".", "t", "x", "t">>
flavors_txt == <<"f", "l", "a", "v", "o", "r", "s", ".", "t", "x", "t">>

MediumLines == <<<<"oil painting", "\n">>, <<"watercolor", "\n">>, <<"digital art", "\n">>>>
FlavorLines == <<<<" ", "watercolor", " ", "\n">>, <<"\n">>>>
empty_txt == <<"e", "m", "p", "t", "y", ".", "t", "x", "t">>

NoDir == [exists |-> FALSE, entries |-> <<>>]
Dir(entries) == [exists |-> TRUE, entries |-> entries]

\* the content directories of the pipeline's runs
PipelineDirs ==
    { NoDir,
      Dir(<<File(mediums_top2_txt, MediumLines)>>),
      Dir(<<File(flavors_txt, FlavorLines), File(empty_txt, <<>>),
            File(mediums_top2_txt, MediumLines)>>) }

\* the candidates the CLIP model is asked about
Labels ==
    {<<"oil painting">>, <<"watercolor">>, <<"digital art">>, <<>>,
     <<"by ", "a1">>, <<"by ", "a2">>}

\* probabilities, in units of 1e-5
Scores == {(i * 87654) \div MaxScore : i \in 0..MaxScore}

\* the CLIP model favours `first`, then `second`, and is indifferent to the rest
Favouring(first, second) ==
    [l \in Labels |-> IF l = first THEN 87654 ELSE IF l = second THEN 43827 ELSE 0]

PipelineSims ==
    { Favouring(<<"watercolor">>, <<"oil painting">>),
      Favouring(<<"digital art">>, <<"by ", "a2">>) }

NoRank == [st |-> "", text_array |-> <<>>, top_count |-> 0,
           exc |-> "", scored |-> <<>>, result |-> <<>>]

InitCalls ==
    /\ pc = [t \in Threads |-> "idle"]
    /\ op = [t \in Threads |-> ""]
    /\ res = [t \in Threads |-> PyNone]
    /\ caption = [t \in Threads |-> <<>>]
    /\ idx = [t \in Threads |-> 0]
    /\ ret = [t \in Threads |-> NoRet]
    /\ log = [t \in Threads |-> <<>>]
    /\ ranked = [t \in Threads |-> <<>>]
    /\ raised_at = [t \in Threads |-> ""]
    /\ pre = [t \in Threads |-> NoPre]

InitHandles ==
    /\ blip_model = NoModel
    /\ clip_model = NoModel
    /\ dtype = "None"
    /\ blip_loads = 0
    /\ clip_loads = 0

\* The pipeline: an InterrogateModels object just constructed from a directory
\* __init__ accepts, under one configuration, and callers that call
\* interrogate(), load() and unload() one at a time.
Init ==
    /\ cmd_opts \in {[lowvram |-> l, medvram |-> m, no_half |-> h] :
                        l \in BOOLEAN, m \in BOOLEAN, h \in BOOLEAN}
    /\ ~(cmd_opts.lowvram /\ cmd_opts.medvram)
    /\ opts \in [interrogate_keep_models_in_memory : BOOLEAN,
                 interrogate_use_builtin_artists : BOOLEAN,
                 interrogate_return_ranks : BOOLEAN,
                 interrogate_clip_dict_limit : {0, 1}]
    /\ device_interrogate \in {CUDA, CPU}
    /\ artists \in {<<>>, <<"a1", "a2">>}
    /\ (~opts.interrogate_use_builtin_artists => artists = <<>>)
    /\ sim \in PipelineSims
    /\ content_dir \in PipelineDirs
    /\ construct(content_dir).exc = ""
    /\ built = "built"
    /\ categories = construct(content_dir).categories
    /\ running_on_cpu = (device_interrogate = CPU)
    /\ InitHandles
    /\ InitCalls
    /\ rk = NoRank
    /\ lock = NoLock

Next ==
    \E t \in Threads :
        \/ CallInterrogate(t)
        \/ CallLoad(t)
        \/ CallUnload(t)
        \/ LowMem(t)
        \/ Load(t)
        \/ GenerateCaption(t)
        \/ SendBlipToRam(t)
        \/ Embed(t)
        \/ RankArtist(t)
        \/ RankCategory(t)
        \/ Except(t)
        \/ Unload(t)
        \/ Return(t)

Spec == Init /\ [][Next]_vars

-----------------------------------------------------------------------------
(* Claims about the pipeline and the handles, checked under Spec *)

Keep == opts.interrogate_keep_models_in_memory

\* a handle that is unloaded or on the spill tier
OffFastTier(h) == h.inst = 0 \/ h.dev = CPU

InterrogateOver(t) == pc[t] = "done" /\ op[t] = "interrogate"

\* C1: when an interrogate() call made with keep_models_in_memory = false is
\* over, however it ended, each of the two model handles is unloaded or on the
\* spill tier (CPU).
C1_EvictedWhenCallIsOver ==
    \A t \in Threads :
        InterrogateOver(t) /\ ~Keep => OffFastTier(blip_model) /\ OffFastTier(clip_model)

\* C2: interrogate() never lets an exception escape and always returns a string,
\* which ends with the <error> marker when a step of the call raised.
C2_AlwaysReturnsAString ==
    \A t \in Threads :
        InterrogateOver(t) =>
            /\ ret[t].kind = "returned"
            /\ ~ret[t].value.isNone
            /\ raised_at[t] # "" =>
                  /\ ret[t].value.s # <<>>
                  /\ ret[t].value.s[Len(ret[t].value.s)] = "<error>"

\* the rank results of the call of thread t: the artist's (if that rank call
\* returned), then one for each category ranked
ArtistRanked(t) ==
    opts.interrogate_use_builtin_artists /\ raised_at[t] \notin {"embed", "artist"}

RECURSIVE CategoryClauses(_)
CategoryClauses(results) ==
    IF results = <<>> THEN <<>>
    ELSE append_matches(<<>>, results[1]) \o CategoryClauses(Tail(results))

\* the caption, the artist clause if the artist was ranked, and all clauses of
\* the categories ranked, as the rank calls returned them
PartialResult(t) ==
    IF ArtistRanked(t)
    THEN caption[t] \o <<", ">> \o ranked[t][1][1][1] \o CategoryClauses(Tail(ranked[t]))
    ELSE caption[t] \o CategoryClauses(ranked[t])

\* C3: when a step after the assignment of the caption raises (the embedding,
\* the artist ranking, the rank call of category k), interrogate() returns the
\* partial result of that moment (caption, artist clause if appended, the clauses
\* of the categories before k and none of category k) followed by <error>.
C3_PartialResultThenError ==
    \A t \in Threads :
        InterrogateOver(t) /\ raised_at[t] \in {"embed", "artist", "cat"} =>
            /\ Len(ranked[t]) = (IF ArtistRanked(t) THEN 1 ELSE 0)
                                + (IF raised_at[t] = "cat" THEN idx[t] - 1 ELSE 0)
            /\ ret[t] = Returned(Str(PartialResult(t) \o <<"<error>">>))

\* C3's case: the rank call of the second category raised, after an artist
\* clause and the clauses of the first category were appended
C3_Witness ==
    \E t \in Threads :
        /\ InterrogateOver(t)
        /\ raised_at[t] = "cat"
        /\ idx[t] = 2
        /\ ArtistRanked(t)
        /\ Len(ranked[t][2]) >= 1
        /\ Len(ret[t].value.s) >= 6

LoadReturned(t) ==
    \/ pc[t] = "caption"
    \/ pc[t] = "done" /\ op[t] = "load" /\ ret[t].kind = "returned"

\* C4: after load() returns normally both handles are loaded and on
\* devices.device_interrogate, whatever they were before, and a second load()
\* that returns leaves the handles (instances, device, precision, dtype) as
\* the first left them.
C4_LoadPromotesAndIsIdempotent ==
    \A t \in Threads :
        LoadReturned(t) =>
            /\ usable(blip_model)
            /\ usable(clip_model)
            /\ \A o \in load(Handles) :
                  o.exc = "" => [o EXCEPT !.exc = ""] = [exc |-> ""] @@ Handles

\* C4's case: load() has returned for handles that a previous unload() had
\* left on the spill tier of a host with a GPU
C4_Witness ==
    \E t \in Threads :
        /\ pc[t] = "done" /\ op[t] = "load" /\ ret[t].kind = "returned"
        /\ device_interrogate = CUDA
        /\ pre[t].blip.inst # 0 /\ pre[t].blip.dev = CPU
        /\ pre[t].clip.inst # 0 /\ pre[t].clip.dev = CPU
        /\ blip_model.dev = CUDA /\ clip_model.dev = CUDA

\* C5: each model kind is instantiated at most once: a handle that is loaded
\* keeps its instance for good (it is neither instantiated again nor dropped).
C5_AtMostOneInstancePerKind ==
    /\ [](blip_loads <= 1 /\ clip_loads <= 1)
    /\ [][/\ blip_model.inst # 0 =>
                blip_model'.inst = blip_model.inst /\ blip_loads' = blip_loads
          /\ clip_model.inst # 0 =>
                clip_model'.inst = clip_model.inst /\ clip_loads' = clip_loads]_vars

\* C5's case: a load() has returned for handles that were both loaded already
C5_Witness ==
    \E t \in Threads :
        /\ LoadReturned(t)
        /\ pre[t].blip.inst = 1 /\ pre[t].clip.inst = 1
        /\ blip_model.inst = 1 /\ clip_model.inst = 1
        /\ blip_loads = 1 /\ clip_loads = 1

\* a step of thread t that runs send_blip_to_ram() or unload()
EvictionStep(t) == pc[t] \in {"blip_to_ram", "unload"} /\ pc'[t] # pc[t]

\* C6: send_clip_to_ram() and send_blip_to_ram() change no handle when
\* keep_models_in_memory is set and leave an unloaded handle unloaded; unload()
\* with nothing loaded returns with both handles still unloaded; and with
\* keep_models_in_memory set a model on the fast tier stays there, so that both
\* are there after an interrogate() call in which nothing raised.
C6_SendToRamNoOps ==
    /\ [][\A t \in Threads :
            EvictionStep(t) =>
                /\ Keep => blip_model' = blip_model /\ clip_model' = clip_model
                /\ blip_model.inst = 0 => blip_model' = blip_model
                /\ clip_model.inst = 0 => clip_model' = clip_model]_vars
    /\ [][Keep => /\ usable(blip_model) => usable(blip_model')
                  /\ usable(clip_model) => usable(clip_model')]_vars
    /\ [](\A t \in Threads :
            pc[t] = "done" /\ op[t] = "unload"
            /\ pre[t].blip.inst = 0 /\ pre[t].clip.inst = 0 =>
                ret[t].kind = "returned" /\ blip_model = NoModel /\ clip_model = NoModel)
    /\ [](\A t \in Threads :
            InterrogateOver(t) /\ Keep /\ raised_at[t] = "" =>
                usable(blip_model) /\ usable(clip_model))

\* C6's case: an interrogate() call is over with keep_models_in_memory set on a
\* host with a GPU, and both models are on the GPU
C6_Witness ==
    \E t \in Threads :
        /\ InterrogateOver(t) /\ Keep /\ raised_at[t] = ""
        /\ device_interrogate = CUDA
        /\ blip_model.dev = CUDA /\ clip_model.dev = CUDA

-----------------------------------------------------------------------------
(* The vocabulary store on its own: __init__ over generated directories *)

\* the parts generated filenames are made of
Segments ==
    {<<"x">>, <<".", "t", "o", "p">>, <<"5">>, <<"0">>, <<".">>, <<".", "t", "x", "t">>}

RECURSIVE Concat(_)
Concat(ss) == IF ss = <<>> THEN <<>> ELSE ss[1] \o Concat(Tail(ss))

\* the filenames made of 1..MaxSegs segments
Filenames == {Concat(ss) : ss \in UNION {[1..n -> Segments] : n \in 1..MaxSegs}}

VocabDirs ==
    {Dir(<<File(f, MediumLines)>>) : f \in Filenames}
    \cup {NoDir, Dir(<<>>), Dir(<<Subdir(<<"x">>)>>),
          Dir(<<File(flavors_txt, FlavorLines), Subdir(<<"x">>)>>)}

DefaultCmdOpts == [lowvram |-> FALSE, medvram |-> FALSE, no_half |-> FALSE]
DefaultOpts == [interrogate_keep_models_in_memory |-> FALSE,
                interrogate_use_builtin_artists |-> FALSE,
                interrogate_return_ranks |-> FALSE,
                interrogate_clip_dict_limit |-> 0]

InitVocab ==
    /\ cmd_opts = DefaultCmdOpts
    /\ opts = DefaultOpts
    /\ device_interrogate = CUDA
    /\ artists = <<>>
    /\ sim = [l \in Labels |-> 0]
    /\ content_dir \in VocabDirs
    /\ built = "new"
    /\ categories = <<>>
    /\ running_on_cpu = FALSE
    /\ InitHandles
    /\ InitCalls
    /\ rk = NoRank
    /\ lock = NoLock

\* InterrogateModels(content_dir)
Construct ==
    /\ built = "new"
    /\ LET o == construct(content_dir) IN
         /\ built' = IF o.exc = "" THEN "built" ELSE "raised"
         /\ categories' = IF o.exc = "" THEN o.categories ELSE <<>>
    /\ running_on_cpu' = (device_interrogate = CPU)
    /\ UNCHANGED <<content_dir, cfgVars, handleVars, callVars, rk, lock>>

NextVocab == Construct

SpecVocab == InitVocab /\ [][NextVocab]_vars

\* the value of a string of decimal digits, read from the left
RECURSIVE Decimal(_, _)
Decimal(d, acc) ==
    IF d = <<>> THEN acc ELSE Decimal(Tail(d), 10 * acc + DigitVal(d[1]))

\* the infixes .top<N>. of s: <<i, j>> with s[i..i+3] = ".top", digits from
\* i + 4 to j - 1 (at least one) and s[j] = "."
Infixes(s) ==
    {ij \in (1..Len(s)) \X (1..Len(s)) :
        /\ ij[2] >= ij[1] + 5
        /\ s[ij[1]] = "." /\ s[ij[1] + 1] = "t" /\ s[ij[1] + 2] = "o" /\ s[ij[1] + 3] = "p"
        /\ \A k \in (ij[1] + 4)..(ij[2] - 1) : s[k] \in Digits
        /\ s[ij[2]] = "."}

ExpectedTopn(s) ==
    IF Infixes(s) = {} THEN 1
    ELSE LET ij == CHOOSE a \in Infixes(s) : \A b \in Infixes(s) : a[1] <= b[1]
         IN  Decimal(SubSeq(s, ij[1] + 4, ij[2] - 1), 0)

x_top5_txt == <<"x", ".", "t", "o", "p", "5", ".", "t", "x", "t">>
x_txt == <<"x", ".", "t", "x", "t">>

\* C7: the topn of every Category is the integer N of the first .top<N>. infix
\* of its filename, and 1 when the filename has none: x.top5.txt gives 5 and
\* x.txt gives 1.
C7_TopnFromFirstInfix ==
    built = "built" =>
        /\ Len(categories) = Len(content_dir.entries)
        /\ \A i \in 1..Len(categories) :
              /\ categories[i].name = content_dir.entries[i].name
              /\ categories[i].topn = ExpectedTopn(categories[i].name)
              /\ categories[i].name = x_top5_txt => categories[i].topn = 5
              /\ categories[i].name = x_txt => categories[i].topn = 1

\* C7's case: a store built from a filename with two infixes, whose topn is
\* that of the first (.top5.top0. gives 5)
C7_Witness ==
    /\ built = "built"
    /\ Len(categories) = 1
    /\ categories[1].name = <<".", "t", "o", "p", "5", ".", "t", "o", "p", "0", ".">>
    /\ Cardinality(Infixes(categories[1].name)) = 2
    /\ categories[1].topn = 5

\* C8: every Category of the store has topn >= 1, whatever the filename.
C8_TopnPositive ==
    built = "built" => \A i \in 1..Len(categories) : categories[i].topn >= 1

-----------------------------------------------------------------------------
(* The ranker on its own: one direct rank() call on generated inputs *)

RankLabels == {<<"oil painting">>, <<"watercolor">>, <<>>}

CandidateLists == UNION {[1..n -> RankLabels] : n \in 0..MaxLen}

LoadedModel == [inst |-> 1, dev |-> CUDA, half |-> TRUE]

InitRank ==
    /\ cmd_opts = DefaultCmdOpts
    /\ opts \in {[DefaultOpts EXCEPT !.interrogate_clip_dict_limit = n] : n \in 0..MaxCap}
    /\ device_interrogate = CUDA
    /\ artists = <<>>
    /\ sim \in [RankLabels -> Scores]
    /\ content_dir = NoDir
    /\ built = "built"
    /\ categories = <<>>
    /\ running_on_cpu = FALSE
    /\ blip_model = LoadedModel
    /\ clip_model = LoadedModel
    /\ dtype = "float16"
    /\ blip_loads = 1
    /\ clip_loads = 1
    /\ InitCalls
    /\ rk \in {[NoRank EXCEPT !.st = "called", !.text_array = ta, !.top_count = k] :
                  ta \in CandidateLists, k \in 0..MaxTop}
    /\ lock = NoLock

\* rank(image_features, text_array, top_count) runs and returns or raises
Rank ==
    /\ rk.st = "called"
    /\ \E o \in rank(rk.text_array, rk.top_count) :
         rk' = [rk EXCEPT !.st = IF o.exc = "" THEN "returned" ELSE "raised",
                          !.exc = o.exc, !.scored = o.scored, !.result = o.result,
                          !.text_array = o.text_array]
    /\ UNCHANGED <<cfgVars, vocabVars, handleVars, callVars, lock>>

NextRank == Rank

SpecRank == InitRank /\ [][NextRank]_vars

Cap == opts.interrogate_clip_dict_limit

\* C9 as stated: rank returns min(top_count, len(candidates)) results, so
\* len(candidates) of them when top_count is larger.
C9_ReturnsMinOfTopCountAndLen ==
    rk.st = "returned" => Len(rk.result) = Min(rk.top_count, Len(rk.text_array))

\* the number of candidates left after the cap's truncation
LenAfterCap == IF Cap = 0 \/ Cap >= Len(rk.text_array) THEN Len(rk.text_array) ELSE Cap

\* C9: rank returns exactly min(top_count, n) results, n being the number of
\* candidates left after the cap's truncation, and topk is never asked for more
\* entries than there are; so a call with top_count > len(candidates) returns
\* len(candidates) results when the cap is 0 or not below len(candidates), and
\* the cap's number otherwise.
C9_ReturnsMinAfterCap ==
    rk.st # "called" =>
        /\ rk.exc # "topk"
        /\ rk.st = "returned" =>
              /\ Len(rk.result) = Min(rk.top_count, LenAfterCap)
              /\ rk.top_count > Len(rk.text_array) => Len(rk.result) = LenAfterCap

\* C9's case: top_count is larger than the list, the cap cuts the list, and
\* rank has returned the cap's number of results
C9_Witness ==
    /\ rk.st = "returned"
    /\ rk.top_count > Len(rk.text_array)
    /\ Cap # 0 /\ Cap < Len(rk.text_array)
    /\ Len(rk.result) = Cap

\* C10: with the cap set to a nonzero N, rank scores the first N candidates of
\* the list it is given (all of them when there are fewer) and no others, and
\* every label it returns is one of them; with the cap 0 it scores the whole list.
C10_CapBoundsScored ==
    rk.st # "called" =>
        /\ Cap # 0 =>
              /\ Len(rk.scored) <= Cap
              /\ Len(rk.scored) = (IF Cap < Len(rk.text_array) THEN Cap ELSE Len(rk.text_array))
              /\ \A i \in 1..Len(rk.scored) : rk.scored[i] = rk.text_array[i]
              /\ \A i \in 1..Len(rk.result) :
                    \E j \in 1..Cap : j <= Len(rk.text_array) /\ rk.result[i][1] = rk.text_array[j]
        /\ Cap = 0 => rk.scored = rk.text_array

\* C10's case: a list of 3 candidates ranked under a cap of 2, with results
C10_Witness ==
    /\ rk.st = "returned"
    /\ Cap = 2
    /\ Len(rk.text_array) = 3
    /\ Len(rk.scored) = 2
    /\ Len(rk.result) = 2

-----------------------------------------------------------------------------
(* C11: the order of rank's results *)

\* the index sequences p that say where the results come from: result i is the
\* candidate scored at p[i], with its confidence
Origins ==
    {p \in [1..Len(rk.result) -> 1..Len(rk.scored)] :
        /\ \A i, j \in 1..Len(rk.result) : i # j => p[i] # p[j]
        /\ \A i \in 1..Len(rk.result) :
              rk.result[i] = <<rk.scored[p[i]], sim[rk.scored[p[i]]] * 100>>}

\* the results are in descending order of confidence and none of the
\* candidates left out has a higher confidence than one returned
TopOf(p) ==
    /\ \A i \in 1..(Len(rk.result) - 1) : rk.result[i][2] >= rk.result[i + 1][2]
    /\ \A j \in 1..Len(rk.scored) :
          (\A i \in 1..Len(p) : p[i] # j) =>
              \A i \in 1..Len(p) : sim[rk.scored[j]] * 100 <= rk.result[i][2]

\* candidates of equal confidence come in the order of their index, and the
\* one of lower index is preferred at the cut
TiesByIndex(p) ==
    /\ \A i, j \in 1..Len(p) :
          i < j /\ rk.result[i][2] = rk.result[j][2] => p[i] < p[j]
    /\ \A j \in 1..Len(rk.scored) :
          (\A i \in 1..Len(p) : p[i] # j) =>
              \A i \in 1..Len(p) : sim[rk.scored[j]] * 100 = rk.result[i][2] => p[i] < j

\* C11 as stated: at most top_count results, in descending order of
\* confidence, the top_count highest of the distribution, with candidates of
\* equal confidence in the order of their first occurrence in the list.
C11_SortedWithStableTies ==
    rk.st = "returned" =>
        /\ Len(rk.result) <= rk.top_count
        /\ \E p \in Origins : TopOf(p) /\ TiesByIndex(p)

\* C11: rank returns at most top_count results (min(top_count, n) of the n
\* candidates scored), each a scored candidate with its confidence, in
\* descending order of confidence, and no candidate left out has a higher
\* confidence than one returned; the order among candidates of equal
\* confidence is the one topk yields.
C11_SortedTopEntries ==
    rk.st = "returned" =>
        /\ Len(rk.result) <= rk.top_count
        /\ Len(rk.result) = Min(rk.top_count, Len(rk.scored))
        /\ \E p \in Origins : TopOf(p)

\* C11's case: two different candidates of equal confidence, returned with the
\* later one first, ahead of a candidate of lower confidence that is left out
C11_Witness ==
    /\ rk.st = "returned"
    /\ Len(rk.scored) = 3
    /\ Len(rk.result) = 2
    /\ rk.result[1][1] = rk.scored[3]
    /\ rk.result[2][1] = rk.scored[2]
    /\ rk.result[1][1] # rk.result[2][1]
    /\ rk.result[1][2] = rk.result[2][2]
    /\ sim[rk.scored[1]] * 100 < rk.result[2][2]

-----------------------------------------------------------------------------
(* C12: the string a successful call in plain mode returns *)

\* ", " + label for each match of one rank result, in the order of the result
RECURSIVE PlainClauses(_)
PlainClauses(matches) ==
    IF matches = <<>> THEN <<>>
    ELSE <<", ">> \o matches[1][1] \o PlainClauses(Tail(matches))

RECURSIVE PlainClausesOfAll(_)
PlainClausesOfAll(results) ==
    IF results = <<>> THEN <<>>
    ELSE PlainClauses(results[1]) \o PlainClausesOfAll(Tail(results))

\* the number of pieces of s that are x
RECURSIVE Count(_, _)
Count(s, x) ==
    IF s = <<>> THEN 0 ELSE (IF s[1] = x THEN 1 ELSE 0) + Count(Tail(s), x)

Succeeded(t) == InterrogateOver(t) /\ raised_at[t] = "" /\ ret[t].kind = "returned"

\* the rank results of the categories, in store order
CategoryResults(t) ==
    IF opts.interrogate_use_builtin_artists THEN Tail(ranked[t]) ELSE ranked[t]

\* C12: in plain mode a successful interrogate() returns the caption, then
\* (only when the built-in artists are enabled) exactly one ", by <artist>"
\* clause, then for each Category in store order one ", <label>" clause per
\* match of rank(items, top_count = topn), in the order rank returned them; for
\* mediums.top2.txt with scores favouring watercolor then oil painting the
\* result is "a cat sitting on a table, watercolor, oil painting".
C12_PlainResult ==
    \A t \in Threads :
        Succeeded(t) /\ ~opts.interrogate_return_ranks =>
            LET s == ret[t].value.s
                cats == CategoryResults(t)
            IN  /\ Len(cats) = Len(categories)
                /\ \A i \in 1..Len(cats) :
                      /\ cats[i] \in {o.result : o \in rank(categories[i].items,
                                                            categories[i].topn)}
                      /\ \A j \in 1..(Len(cats[i]) - 1) : cats[i][j][2] >= cats[i][j + 1][2]
                /\ IF opts.interrogate_use_builtin_artists
                   THEN /\ Len(ranked[t][1]) = 1
                        /\ ranked[t][1][1][1] \in {<<"by ", artists[i]>> : i \in 1..Len(artists)}
                        /\ s = CaptionText \o <<", ">> \o ranked[t][1][1][1]
                                 \o PlainClausesOfAll(cats)
                        /\ Count(s, "by ") = 1
                   ELSE /\ s = CaptionText \o PlainClausesOfAll(cats)
                        /\ Count(s, "by ") = 0
                /\ (/\ ~opts.interrogate_use_builtin_artists
                    /\ opts.interrogate_clip_dict_limit = 0
                    /\ content_dir = Dir(<<File(mediums_top2_txt, MediumLines)>>)
                    /\ sim = Favouring(<<"watercolor">>, <<"oil painting">>)) =>
                       s = <<"a cat sitting on a table", ", ", "watercolor", ", ", "oil painting">>

\* C12's case: the call over mediums.top2.txt with the artists enabled has
\* returned the caption, the artist clause and the two medium clauses
C12_Witness ==
    \E t \in Threads :
        /\ Succeeded(t) /\ ~opts.interrogate_return_ranks
        /\ opts.interrogate_use_builtin_artists
        /\ opts.interrogate_clip_dict_limit = 0
        /\ content_dir = Dir(<<File(mediums_top2_txt, MediumLines)>>)
        /\ ret[t].value.s = <<"a cat sitting on a table", ", ", "by ", "a1",
                              ", ", "watercolor", ", ", "oil painting">>

-----------------------------------------------------------------------------
(* C13: empty candidate lists *)

\* C13: ranking an empty candidate list during interrogate() is not an error:
\* the `rank(...)[0]` of the artist step never raises IndexError on an empty
\* artist vocabulary, the call then carries no "<error>" marker for it, and
\* the categories after it are processed.
C13_EmptyListIsNoError ==
    \A t \in Threads :
        /\ Count(log[t], "IndexError") = 0
        /\ (/\ Succeeded(t)
            /\ opts.interrogate_use_builtin_artists /\ artists = <<>>) =>
               /\ Count(ret[t].value.s, "<error>") = 0
               /\ Len(ranked[t]) = 1 + Len(categories)

-----------------------------------------------------------------------------
(* C14: the entries of the content directory *)

RECURSIVE RegularFiles(_)
RegularFiles(entries) ==
    IF entries = <<>> THEN 0
    ELSE (IF entries[1].kind = "file" THEN 1 ELSE 0) + RegularFiles(Tail(entries))

\* C14: __init__ completes without error for every content directory and
\* leaves exactly one Category per regular file of the directory, none for any
\* other entry, and none at all when the directory does not exist.
C14_OneCategoryPerRegularFile ==
    built # "new" =>
        /\ built = "built"
        /\ Len(categories) = RegularFiles(content_dir.entries)

-----------------------------------------------------------------------------
(* Concurrent callers: interrogate() calls of several threads on one object,
   interleaved step by step, without a lock or each under the pipeline-wide
   lock *)

\* the lock is taken before step 1; a caller waits while another call holds it
Acquire(t) ==
    IF lock.exists THEN lock.holder = 0 /\ lock' = HeldBy(t) ELSE UNCHANGED lock

\* the lock is released after step 9, however the call ended
Release(t) ==
    IF lock.exists THEN lock.holder = t /\ lock' = FreeLock ELSE UNCHANGED lock

\* a thread calls interrogate(pil_image), whatever the other threads are doing
ConcurrentInterrogate(t) ==
    /\ built = "built"
    /\ pc[t] = "idle"
    /\ Acquire(t)
    /\ Enter(t, "interrogate", "lowmem")

ConcurrentReturn(t) == Leave(t) /\ Release(t)

InitConc ==
    /\ cmd_opts = DefaultCmdOpts
    /\ opts \in [interrogate_keep_models_in_memory : BOOLEAN,
                 interrogate_use_builtin_artists : {TRUE},
                 interrogate_return_ranks : {FALSE},
                 interrogate_clip_dict_limit : {0}]
    /\ device_interrogate = CUDA
    /\ artists = <<"a1", "a2">>
    /\ sim = Favouring(<<"watercolor">>, <<"oil painting">>)
    /\ content_dir = Dir(<<File(mediums_top2_txt, MediumLines)>>)
    /\ built = "built"
    /\ categories = construct(content_dir).categories
    /\ running_on_cpu = (device_interrogate = CPU)
    /\ InitHandles
    /\ InitCalls
    /\ rk = NoRank
    /\ lock \in {NoLock, FreeLock}

\* the two threads whose calls run concurrently
Callers == {t \in Threads : t <= 2}

NextConc ==
    \E t \in Callers :
        \/ ConcurrentInterrogate(t)
        \/ LowMem(t)
        \/ Load(t)
        \/ GenerateCaption(t)
        \/ SendBlipToRam(t)
        \/ Embed(t)
        \/ RankArtist(t)
        \/ RankCategory(t)
        \/ Except(t)
        \/ Unload(t)
        \/ ConcurrentReturn(t)

SpecConc == InitConc /\ [][NextConc]_vars

\* a loaded handle that sits on the spill tier while the fast tier is another device
Spilled(h) == h.inst # 0 /\ h.dev = CPU /\ device_interrogate # CPU

\* thread t is at a step that runs the caption model / the CLIP model
NeedsBlip(t) == op[t] = "interrogate" /\ pc[t] = "caption"
NeedsClip(t) == op[t] = "interrogate" /\ pc[t] \in {"embed", "artist", "cat"}

\* thread t is at a step whose model is on the spill tier
Stranded(t) ==
    \/ NeedsBlip(t) /\ Spilled(blip_model)
    \/ NeedsClip(t) /\ Spilled(clip_model)

\* C15: when every interrogate() call holds the pipeline-wide lock from before
\* step 1 until after step 9, no call is ever at its captioning, embedding or
\* ranking step with the model of that step on the spill tier, and at most one
\* call is under way; without the lock two concurrent calls reach such a state
\* (the witness).
C15_LockExcludesTheRace ==
    lock.exists =>
        /\ \A t \in Threads : ~Stranded(t)
        /\ \A t, u \in Threads : pc[t] # "idle" /\ pc[u] # "idle" => t = u

\* C15's case: without a lock, one call is about to embed or rank with the CLIP
\* model that another call's unload() has moved to the spill tier, or about to
\* caption with the caption model that the other call's send_blip_to_ram() has
\* moved there
C15_Witness ==
    /\ ~lock.exists
    /\ \E t, u \in Threads :
         /\ t # u
         /\ op[u] = "interrogate"
         /\ \/ /\ NeedsClip(t) /\ Spilled(clip_model)
               /\ Count(log[u], "unload") > 0
               /\ Count(log[t], "unload") = 0
            \/ /\ NeedsBlip(t) /\ Spilled(blip_model)
               /\ Count(log[u], "send_blip_to_ram") > 0
               /\ Count(log[t], "send_blip_to_ram") = 0

-----------------------------------------------------------------------------
(* C16: the order of the steps of one call *)

\* the step of the pipeline an event of the log belongs to (0: not a step)
Phase(e) ==
    CASE e = "load" -> 1
      [] e = "generate_caption" -> 2
      [] e = "send_blip_to_ram" -> 3
      [] e = "encode_image" -> 4
      [] e = "rank" -> 5
      [] e = "unload" -> 6
      [] OTHER -> 0

\* the steps in l are in pipeline order, none of 1..5 taken without the one
\* before it, and only the rank step is taken more than once
InPipelineOrder(l) ==
    /\ \A i, j \in 1..Len(l) :
          i < j /\ Phase(l[i]) > 0 /\ Phase(l[j]) > 0 =>
              \/ Phase(l[i]) < Phase(l[j])
              \/ Phase(l[i]) = 5 /\ Phase(l[j]) = 5
    /\ \A j \in 1..Len(l) :
          Phase(l[j]) \in 2..5 =>
              \E i \in 1..(j - 1) : Phase(l[i]) = Phase(l[j]) - 1
    /\ \A i \in 1..Len(l) :
          l[i] = "send_blip_to_ram" => i < Len(l) /\ l[i + 1] = "torch_gc"

Embedding(t) == op[t] = "interrogate" /\ pc[t] \in {"embed", "artist", "cat"}

\* C16: in an interrogate() call with keep_models_in_memory = false the caption
\* model is on the spill tier (CPU) during the whole embedding and ranking
\* phase; send_blip_to_ram and then torch_gc come after generate_caption and
\* before encode_image; and the steps of every call are in the order load,
\* caption, release of the caption model, embed, rank per category, unload.
C16_CaptionModelReleasedBeforeEmbedding ==
    \A t \in Threads :
        op[t] = "interrogate" =>
            /\ InPipelineOrder(log[t])
            /\ Embedding(t) =>
                  /\ Count(log[t], "generate_caption") = 1
                  /\ Count(log[t], "send_blip_to_ram") = 1
                  /\ ~Keep => blip_model.inst # 0 /\ blip_model.dev = CPU
            /\ Succeeded(t) =>
                  /\ Count(log[t], "rank") = Len(ranked[t])
                  /\ Count(log[t], "unload") = 1
                  /\ log[t][Len(log[t]) - 1] = "unload"

\* C16's case: a call on a CUDA host with keep = false is ranking a category
\* with the caption model on the CPU and the CLIP model on the GPU
C16_Witness ==
    \E t \in Threads :
        /\ op[t] = "interrogate" /\ pc[t] = "cat" /\ ~Keep
        /\ device_interrogate = CUDA
        /\ blip_model.inst # 0 /\ blip_model.dev = CPU
        /\ clip_model.inst # 0 /\ clip_model.dev = CUDA
        /\ Count(log[t], "rank") = 1

-----------------------------------------------------------------------------
(* C17: the low-memory pre-step *)

\* constrained-memory mode is configured
ConstrainedMemory == cmd_opts.lowvram \/ cmd_opts.medvram

\* C17: when lowvram or medvram is set, an interrogate() call that is past its
\* pre-step has run send_everything_to_cpu first and, unless the hook raised,
\* torch_gc right after it, before load(); until load() is run the handles are
\* as they were when the call was made; when neither is set, the hook is not
\* called.
C17_LowMemoryPreStepFirst ==
    \A t \in Threads :
        op[t] = "interrogate" =>
            /\ Count(log[t], "load") = 0 =>
                  /\ blip_model = pre[t].blip
                  /\ clip_model = pre[t].clip
                  /\ dtype = pre[t].dtype
            /\ ConstrainedMemory /\ pc[t] # "lowmem" =>
                  /\ Len(log[t]) >= 1
                  /\ log[t][1] = "send_everything_to_cpu"
                  /\ Count(log[t], "send_everything_to_cpu") = 1
                  /\ raised_at[t] # "lowmem" =>
                        Len(log[t]) >= 2 /\ log[t][2] = "torch_gc"
                  /\ raised_at[t] = "lowmem" => Count(log[t], "load") = 0
            /\ ~ConstrainedMemory => Count(log[t], "send_everything_to_cpu") = 0

\* C17's case: under medvram the call has run the hook, the reclaim and then
\* load(), which instantiated the caption model
C17_Witness ==
    \E t \in Threads :
        /\ op[t] = "interrogate" /\ pc[t] = "caption"
        /\ cmd_opts.medvram /\ ~cmd_opts.lowvram
        /\ log[t] = <<"send_everything_to_cpu", "torch_gc", "load">>
        /\ pre[t].blip.inst = 0 /\ blip_model.inst # 0

-----------------------------------------------------------------------------
(* C18: the precision of a loaded model *)

\* the step leaves the precision of the handle as it is unless it instantiates it
PrecisionKept(h, hNext) ==
    /\ h.inst # 0 => hNext.inst = h.inst /\ hNext.half = h.half
    /\ hNext.half => hNext.inst # 0

\* C18: a model is in reduced precision only if no_half is false and the host
\* is not CPU-only; no step changes the precision of a model that is loaded,
\* whichever tier it moves to, so the conversion is applied only in the step
\* that instantiates the model; and a load() that instantiated the caption
\* model and returned has converted it exactly when no_half is false and the
\* host is not CPU-only.
C18_PrecisionFixedAtInstantiation ==
    /\ [](/\ blip_model.half \/ clip_model.half => ~cmd_opts.no_half /\ ~running_on_cpu
          /\ running_on_cpu => ~blip_model.half /\ ~clip_model.half
          /\ \A t \in Threads :
                pc[t] = "caption" /\ pre[t].blip.inst = 0 =>
                    /\ blip_model.inst # 0
                    /\ blip_model.half = (~cmd_opts.no_half /\ ~running_on_cpu))
    /\ [][/\ PrecisionKept(blip_model, blip_model')
          /\ PrecisionKept(clip_model, clip_model')]_vars

\* C18's case: a call made when the half-precision caption model was already
\* loaded is over, and the model is still half precision, now on the CPU
C18_Witness ==
    \E t \in Threads :
        /\ pc[t] = "done" /\ op[t] \in {"interrogate", "unload"}
        /\ device_interrogate = CUDA
        /\ pre[t].blip.inst # 0 /\ pre[t].blip.half /\ pre[t].blip.dev = CUDA
        /\ blip_model.half /\ blip_model.dev = CPU
        /\ clip_model.half

-----------------------------------------------------------------------------
(* C19: the vocabulary store after construction *)

\* C19: after construction no step of interrogate(), load() or unload() (rank
\* included, also when the cap truncates the list it scores and when the call
\* raises) changes the categories: they stay what __init__ built.
C19_StoreIsReadOnly ==
    /\ [](categories = construct(content_dir).categories)
    /\ [][categories' = categories]_vars

\* C19's case: with a cap of 1 a call has ranked the two-item flavors list
\* truncated to one item, raised while ranking a later category, and is over;
\* the lists are as long as they were
C19_Witness ==
    \E t \in Threads :
        /\ InterrogateOver(t)
        /\ opts.interrogate_clip_dict_limit = 1
        /\ raised_at[t] = "cat"
        /\ Len(ranked[t]) >= 1
        /\ Len(categories) = 3
        /\ Len(categories[1].items) = 2
        /\ Len(categories[3].items) = 3

-----------------------------------------------------------------------------
(* C20: the "<error>" marker *)

\* s carries at most one "<error>", as its last piece
AtMostOneErrorLast(s) ==
    /\ Count(s, "<error>") <= 1
    /\ Count(s, "<error>") = 1 => s[Len(s)] = "<error>"

\* C20: the string interrogate() builds and returns carries "<error>" at most
\* once, as the last thing appended, and only if an exception was raised in the
\* call: a returned string carries it exactly when a step raised.
C20_ErrorMarkerOnceLastOnlyOnError ==
    \A t \in Threads :
        op[t] = "interrogate" =>
            /\ ~res[t].isNone =>
                  /\ AtMostOneErrorLast(res[t].s)
                  /\ Count(res[t].s, "<error>") = 1 => raised_at[t] # ""
            /\ pc[t] = "done" /\ ret[t].kind = "returned" =>
                  /\ ~ret[t].value.isNone
                  /\ AtMostOneErrorLast(ret[t].value.s)
                  /\ (Count(ret[t].value.s, "<error>") = 1) = (raised_at[t] # "")

\* C20's case: a call that raised while ranking a category has returned the
\* caption, the clauses appended so far and one "<error>" at the end
C20_Witness ==
    \E t \in Threads :
        /\ InterrogateOver(t) /\ ret[t].kind = "returned"
        /\ raised_at[t] = "cat"
        /\ Len(ranked[t]) >= 1
        /\ Len(ret[t].value.s) >= 4
        /\ ret[t].value.s[Len(ret[t].value.s)] = "<error>"
        /\ Count(ret[t].value.s, "<error>") = 1

====
